---- MODULE Spec2Model ----
(***************************************************************************)
(* Model of deepk.data.DataHandler.__init__ (src/deepk/data.py) and of the *)
(* error functions anae / overall (src/deepk/errors.py).                    *)
(*                                                                         *)
(* Tensor entries are modelled as extended rationals: a pair <<n, d>> with *)
(* d > 0 and gcd(n, d) = 1 is the number n/d, <<1, 0>> is +inf, <<-1, 0>>  *)
(* is -inf and <<0, 0>> is nan.  Arithmetic follows IEEE-754 for the       *)
(* special values (x/0, 0/0, inf-inf, nan propagation); rounding error of  *)
(* finite results is not modelled.  A tensor of any shape that is only     *)
(* used element-wise is modelled by its flattened sequence of entries.     *)
(***************************************************************************)
EXTENDS Integers, Sequences, FiniteSets

(* ------------------------------ bounds --------------------------------- *)
\* longest training time vector that is enumerated
MaxN == 3
\* training time values are drawn from 0..MaxT
MaxT == 3
\* longest validation time vector
MaxV == 2
\* longest test split in the size-check family
MaxE == 1
\* most rows of an enumerated training matrix
MaxRows == 3
\* number of columns (input states) of an enumerated training matrix
NCols == 1
\* longest tensor handed to anae
MaxLen == 3
\* longest tensor handed to overall
MaxOv == 1

\* values of validation / test time indices (outside and inside 0..MaxT)
TOther == {-1, 5}
\* entries of the enumerated state matrices
XVals == {-2, 0, 1}
\* entries of the tensors handed to the error functions
EVals == {-2, 0, 1}
\* the example of the DataHandler docstring (src/deepk/data.py line 17)
DocExample == <<100, 203, 298, 400, 500>>
DocRegular == <<100, 200, 300, 400, 500>>

(* ------------------------ extended rationals --------------------------- *)
Abs(n) == IF n < 0 THEN -n ELSE n

Sgn(n) == IF n < 0 THEN -1 ELSE IF n > 0 THEN 1 ELSE 0

RECURSIVE GCD(_, _)
GCD(a, b) == IF b = 0 THEN a ELSE GCD(b, a % b)

Norm(n, d) ==
    IF d = 0 THEN <<Sgn(n), 0>>
    ELSE LET g == GCD(Abs(n), Abs(d))
             s == Sgn(d)
         IN  <<(s * n) \div g, (s * d) \div g>>

NaN == <<0, 0>>
PInf == <<1, 0>>
NInf == <<-1, 0>>

FromInt(n) == <<n, 1>>

IsFinite(x) == x[2] # 0

FNeg(x) == <<-x[1], x[2]>>

FAbs(x) == <<Abs(x[1]), x[2]>>

FAdd(a, b) ==
    IF a = NaN \/ b = NaN THEN NaN
    ELSE IF a[2] = 0 /\ b[2] = 0 THEN (IF a = b THEN a ELSE NaN)
    ELSE Norm(a[1] * b[2] + b[1] * a[2], a[2] * b[2])

FSub(a, b) == FAdd(a, FNeg(b))

FMul(a, b) == Norm(a[1] * b[1], a[2] * b[2])

\* the divisor zero is always +0 here (a difference of equal values or an
\* absolute value), so 1/0 is +inf
FRecip(b) ==
    IF b[2] = 0 THEN (IF b[1] = 0 THEN NaN ELSE FromInt(0))
    ELSE IF b[1] = 0 THEN PInf
    ELSE Norm(b[2], b[1])

FDiv(a, b) == FMul(a, FRecip(b))

FLess(a, b) ==
    /\ a # NaN
    /\ b # NaN
    /\ IF a[2] = 0 /\ b[2] = 0 THEN a[1] < b[1]
       ELSE IF a[2] = 0 THEN a[1] < 0
       ELSE IF b[2] = 0 THEN b[1] > 0
       ELSE a[1] * b[2] < b[1] * a[2]

\* torch.round: to the nearest integer, ties to the even one
FRound(x) ==
    IF x[2] = 0 THEN x
    ELSE LET q == x[1] \div x[2]
             r == x[1] % x[2]
         IN  IF 2 * r < x[2] THEN <<q, 1>>
             ELSE IF 2 * r > x[2] THEN <<q + 1, 1>>
             ELSE IF q % 2 = 0 THEN <<q, 1>> ELSE <<q + 1, 1>>

RECURSIVE FSum(_)
FSum(s) == IF s = <<>> THEN FromInt(0) ELSE FAdd(s[1], FSum(Tail(s)))

\* torch.mean: nan for an empty tensor
FMean(s) == IF s = <<>> THEN NaN ELSE FDiv(FSum(s), FromInt(Len(s)))

RECURSIVE FMaxSeq(_)
FMaxSeq(s) ==
    IF Len(s) = 1 THEN s[1]
    ELSE LET m == FMaxSeq(Tail(s))
         IN  IF s[1] = NaN \/ m = NaN THEN NaN
             ELSE IF FLess(s[1], m) THEN m ELSE s[1]

RECURSIVE Flatten(_)
Flatten(M) == IF M = <<>> THEN <<>> ELSE M[1] \o Flatten(Tail(M))

(* ------------------------- deepk.utils helpers -------------------------- *)
\* utils._tensorize: an array-like becomes a tensor of reals
\* (None, an absent split, is the empty sequence here)
_tensorize1(v) == [i \in 1..Len(v) |-> FromInt(v[i])]

_tensorize2(M) == [i \in 1..Len(M) |-> _tensorize1(M[i])]

\* utils._scale: every entry divided by scale
_scale1(v, scale) == [i \in 1..Len(v) |-> FDiv(v[i], scale)]

_scale2(M, scale) == [i \in 1..Len(M) |-> _scale1(M[i], scale)]

\* utils._shift: shift subtracted from every entry
_shift(v, shift) == [i \in 1..Len(v) |-> FSub(v[i], shift)]

(* ------------------------------ state ---------------------------------- *)
VARIABLES
    args,            \* the constructor's arguments Xtr, ttr, Xva, tva, Xte, tte
    normalize_Xdata, \* cfg.normalize_Xdata
    Xtr, Xva, Xte,   \* self.Xtr, self.Xva, self.Xte
    ttr, tva, tte,   \* self.ttr, self.tva, self.tte
    Xscale, tshift,  \* self.Xscale, self.tshift
    dts,             \* self.dts: <<spacing, count>> pairs in insertion order
    tscale,          \* self.tscale
    attrs,           \* names of the attributes of self that exist
    pc,              \* position in __init__
    err,             \* the exception raised, "" when none
    op,              \* the error function called: "anae" or "overall"
    eargs,           \* its arguments
    ret,             \* its return value
    epc              \* "call" before and "done" after the error function ran

dhvars == <<args, normalize_Xdata, Xtr, Xva, Xte, ttr, tva, tte, Xscale,
            tshift, dts, tscale, attrs, pc, err>>

errvars == <<op, eargs, ret, epc>>

vars == <<dhvars, errvars>>

(* ------------------- DataHandler.__init__, step by step ----------------- *)
AssertionErrorTr == "AssertionError: Expected 'Xtr' and 'ttr' to have same length of 1st dimension"
AssertionErrorVa == "AssertionError: Expected 'Xva' and 'tva' to have same length of 1st dimension"
AssertionErrorTe == "AssertionError: Expected 'Xte' and 'tte' to have same length of 1st dimension"
RuntimeErrorMax == "RuntimeError: max(): Expected reduction dim to be specified for input.numel() == 0"
ValueErrorMax == "ValueError: max() arg is an empty sequence"
ValueErrorTtr == "ValueError: Training indexes are not equally spaced and cannot be rounded to get equal spacing. Please check 'ttr'"

Raise(e) == /\ pc' = "raised"
            /\ err' = e

\* lines 29-34
Tensorize ==
    /\ pc = "start"
    /\ Xtr' = _tensorize2(args.Xtr)
    /\ Xva' = _tensorize2(args.Xva)
    /\ Xte' = _tensorize2(args.Xte)
    /\ ttr' = _tensorize1(args.ttr)
    /\ tva' = _tensorize1(args.tva)
    /\ tte' = _tensorize1(args.tte)
    /\ attrs' = attrs \cup {"Xtr", "Xva", "Xte", "ttr", "tva", "tte"}
    /\ pc' = "check_tr"
    /\ UNCHANGED <<args, normalize_Xdata, Xscale, tshift, dts, tscale, err, errvars>>

\* line 37
CheckTr ==
    /\ pc = "check_tr"
    /\ IF Len(Xtr) = Len(ttr)
       THEN pc' = "check_va" /\ err' = err
       ELSE Raise(AssertionErrorTr)
    /\ UNCHANGED <<args, normalize_Xdata, Xtr, Xva, Xte, ttr, tva, tte, Xscale,
                   tshift, dts, tscale, attrs, errvars>>

\* mutant: the validation split's size check is missing
CheckVaMut ==
    /\ pc = "check_va"
    /\ pc' = "check_te"
    /\ UNCHANGED <<args, normalize_Xdata, Xtr, Xva, Xte, ttr, tva, tte, Xscale,
                   tshift, dts, tscale, attrs, err, errvars>>

\* line 38
CheckVa ==
    /\ pc = "check_va"
    /\ IF Len(Xva) = Len(tva)
       THEN pc' = "check_te" /\ err' = err
       ELSE Raise(AssertionErrorVa)
    /\ UNCHANGED <<args, normalize_Xdata, Xtr, Xva, Xte, ttr, tva, tte, Xscale,
                   tshift, dts, tscale, attrs, errvars>>

\* line 39
CheckTe ==
    /\ pc = "check_te"
    /\ IF Len(Xte) = Len(tte)
       THEN pc' = "xscale" /\ err' = err
       ELSE Raise(AssertionErrorTe)
    /\ UNCHANGED <<args, normalize_Xdata, Xtr, Xva, Xte, ttr, tva, tte, Xscale,
                   tshift, dts, tscale, attrs, errvars>>

\* torch.max(torch.abs(X)).item(), X not empty
MaxAbs(X) == LET f == Flatten(X)
             IN  FMaxSeq([i \in 1..Len(f) |-> FAbs(f[i])])

\* line 42; torch.max raises on a tensor without elements
DefineXscale ==
    /\ pc = "xscale"
    /\ IF Flatten(Xtr) = <<>>
       THEN /\ Raise(RuntimeErrorMax)
            /\ UNCHANGED <<Xscale, attrs>>
       ELSE /\ Xscale' = MaxAbs(Xtr)
            /\ attrs' = attrs \cup {"Xscale"}
            /\ pc' = "normalize"
            /\ err' = err
    /\ UNCHANGED <<args, normalize_Xdata, Xtr, Xva, Xte, ttr, tva, tte,
                   tshift, dts, tscale, errvars>>

\* lines 43-46
NormalizeX ==
    /\ pc = "normalize"
    /\ IF normalize_Xdata
       THEN /\ Xtr' = _scale2(Xtr, Xscale)
            /\ Xva' = _scale2(Xva, Xscale)
            /\ Xte' = _scale2(Xte, Xscale)
       ELSE UNCHANGED <<Xtr, Xva, Xte>>
    /\ pc' = "shift"
    /\ UNCHANGED <<args, normalize_Xdata, ttr, tva, tte, Xscale, tshift, dts,
                   tscale, attrs, err, errvars>>

\* lines 49-52 (ttr is not empty here: Xtr has a row for every entry of ttr
\* and torch.max accepted Xtr)
ShiftT ==
    /\ pc = "shift"
    /\ tshift' = ttr[1]
    /\ ttr' = _shift(ttr, ttr[1])
    /\ tva' = _shift(tva, ttr[1])
    /\ tte' = _shift(tte, ttr[1])
    /\ attrs' = attrs \cup {"tshift"}
    /\ pc' = "dts"
    /\ UNCHANGED <<args, normalize_Xdata, Xtr, Xva, Xte, Xscale, dts, tscale,
                   err, errvars>>

\* self.dts[k] += 1 on a defaultdict(int): a new key is appended with count 1
Incr(d, k) ==
    IF \E j \in 1..Len(d) : d[j][1] = k
    THEN [j \in 1..Len(d) |-> IF d[j][1] = k THEN <<k, d[j][2] + 1>> ELSE d[j]]
    ELSE Append(d, <<k, 1>>)

\* lines 55-57: the loop over i in range(len(ttr)-1), after m iterations
RECURSIVE CountDts(_, _)
CountDts(t, m) ==
    IF m <= 0 THEN <<>>
    ELSE Incr(CountDts(t, m - 1), FSub(t[m + 1], t[m]))

FindDts ==
    /\ pc = "dts"
    /\ dts' = CountDts(ttr, Len(ttr) - 1)
    /\ attrs' = attrs \cup {"dts"}
    /\ pc' = "tscale"
    /\ UNCHANGED <<args, normalize_Xdata, Xtr, Xva, Xte, ttr, tva, tte, Xscale,
                   tshift, tscale, err, errvars>>

\* mutant: on a tie the last key with the maximal count wins
MaxKeyMut(d) ==
    LET j == CHOOSE j \in 1..Len(d) :
                 /\ \A k \in 1..Len(d) : d[k][2] <= d[j][2]
                 /\ \A k \in (j + 1)..Len(d) : d[k][2] < d[j][2]
    IN  d[j][1]

\* max(d, key=d.get): the first key, in insertion order, whose count no
\* other key exceeds
MaxKey(d) ==
    LET j == CHOOSE j \in 1..Len(d) :
                 /\ \A k \in 1..Len(d) : d[k][2] <= d[j][2]
                 /\ \A k \in 1..(j - 1) : d[k][2] < d[j][2]
    IN  d[j][1]

\* lines 60-63; max raises on an empty dict
DefineTscale ==
    /\ pc = "tscale"
    /\ IF dts = <<>>
       THEN /\ Raise(ValueErrorMax)
            /\ UNCHANGED <<tscale, attrs, ttr, tva, tte>>
       ELSE /\ tscale' = MaxKey(dts)
            /\ attrs' = attrs \cup {"tscale"}
            /\ ttr' = _scale1(ttr, MaxKey(dts))
            /\ tva' = _scale1(tva, MaxKey(dts))
            /\ tte' = _scale1(tte, MaxKey(dts))
            /\ pc' = "round"
            /\ err' = err
    /\ UNCHANGED <<args, normalize_Xdata, Xtr, Xva, Xte, Xscale, tshift, dts,
                   errvars>>

\* line 66
RoundT(t) == [i \in 1..Len(t) |-> FRound(t[i])]

\* line 67
dts_set(t) == {FSub(t[i + 1], t[i]) : i \in 1..(Len(t) - 1)}

\* mutant: a spacing of 1 among the spacings is enough
UnitSpacedMut(t) == FromInt(1) \in dts_set(t)

\* line 68: the set of spacings is {1}
UnitSpaced(t) == dts_set(t) = {FromInt(1)}

\* mutant: the validation indices are rounded and checked like the training
\* indices
RoundCheckMut ==
    /\ pc = "round"
    /\ ttr' = RoundT(ttr)
    /\ tva' = RoundT(tva)
    /\ IF UnitSpaced(RoundT(ttr)) /\ (Len(tva) < 2 \/ UnitSpaced(RoundT(tva)))
       THEN pc' = "done" /\ err' = err
       ELSE Raise(ValueErrorTtr)
    /\ UNCHANGED <<args, normalize_Xdata, Xtr, Xva, Xte, tte, Xscale,
                   tshift, dts, tscale, attrs, errvars>>

\* lines 66-69
RoundCheck ==
    /\ pc = "round"
    /\ ttr' = RoundT(ttr)
    /\ IF UnitSpaced(RoundT(ttr))
       THEN pc' = "done" /\ err' = err
       ELSE Raise(ValueErrorTtr)
    /\ UNCHANGED <<args, normalize_Xdata, Xtr, Xva, Xte, tva, tte, Xscale,
                   tshift, dts, tscale, attrs, errvars>>

Next ==
    \/ Tensorize
    \/ CheckTr
    \/ CheckVa
    \/ CheckTe
    \/ DefineXscale
    \/ NormalizeX
    \/ ShiftT
    \/ FindDts
    \/ DefineTscale
    \/ RoundCheck

(* ----------------------------- inputs ----------------------------------- *)
SeqsOf(S, lo, hi) == UNION {[1..n -> S] : n \in lo..hi}

\* a state matrix of m rows without a zero entry
RampMat(m) == [i \in 1..m |-> [j \in 1..NCols |-> i + j]]

\* a time vector of m equally spaced entries
RampVec(m) == [i \in 1..m |-> 10 + 2 * i]

NoErr == /\ op = "none"
         /\ eargs = <<>>
         /\ ret = <<>>
         /\ epc = "idle"

Fresh == /\ Xtr = <<>> /\ Xva = <<>> /\ Xte = <<>>
         /\ ttr = <<>> /\ tva = <<>> /\ tte = <<>>
         /\ Xscale = NaN /\ tshift = NaN /\ tscale = NaN
         /\ dts = <<>>
         /\ attrs = {}
         /\ err = ""

\* every training time vector, with a few validation and test vectors
InitTime ==
    \E t \in SeqsOf(0..MaxT, 1, MaxN) \cup {DocExample},
       v \in SeqsOf(TOther, 0, MaxV),
       e \in {<<>>, <<7, 2>>} :
        /\ args = [Xtr |-> RampMat(Len(t)), ttr |-> t,
                   Xva |-> RampMat(Len(v)), tva |-> v,
                   Xte |-> RampMat(Len(e)), tte |-> e]
        /\ normalize_Xdata = TRUE

\* every training matrix, with equally spaced training times
InitX ==
    \E m \in 2..MaxRows, b \in BOOLEAN, big \in BOOLEAN :
      \E X \in [1..m -> [1..NCols -> XVals]] :
        /\ args = [Xtr |-> X, ttr |-> RampVec(m),
                   Xva |-> IF big THEN <<[j \in 1..NCols |-> 3 * j]>> ELSE <<>>,
                   tva |-> IF big THEN <<7>> ELSE <<>>,
                   Xte |-> <<>>, tte |-> <<>>]
        /\ normalize_Xdata = b

\* every combination of split lengths
InitSizes ==
    \E a \in 0..MaxN, b \in 0..MaxN, c \in 0..MaxV, d \in 0..MaxV,
       e \in 0..MaxE, f \in 0..MaxE :
        /\ args = [Xtr |-> RampMat(a), ttr |-> RampVec(b),
                   Xva |-> RampMat(c), tva |-> RampVec(d),
                   Xte |-> RampMat(e), tte |-> RampVec(f)]
        /\ normalize_Xdata = TRUE

Init ==
    /\ InitTime \/ InitX \/ InitSizes
    /\ Fresh
    /\ pc = "start"
    /\ NoErr

Spec == Init /\ [][Next]_vars

(* ------------------------ deepk.errors: anae, overall ------------------- *)
\* line 26: torch.abs(ref-new)/torch.abs(ref), element by element
Ratios(ref, new) ==
    [i \in 1..Len(ref) |-> FDiv(FAbs(FSub(ref[i], new[i])), FAbs(ref[i]))]

NotInf(x) == x # PInf

\* line 27: 100.*torch.mean(anae[anae!=torch.inf])
anae(ref, new) ==
    FMul(FromInt(100), FMean(SelectSeq(Ratios(ref, new), NotInf)))

\* mutant: reference and prediction swapped in the linearity error
overallMut(X, Y, Xr, Ypred, Xpred) ==
    [recon |-> anae(X, Xr),
     lin   |-> anae(Ypred, Y),
     pred  |-> anae(X, Xpred)]

\* lines 69-73
overall(X, Y, Xr, Ypred, Xpred) ==
    [recon |-> anae(X, Xr),
     lin   |-> anae(Y, Ypred),
     pred  |-> anae(X, Xpred)]

CallAnae ==
    /\ epc = "call"
    /\ op = "anae"
    /\ ret' = anae(eargs.ref, eargs.new)
    /\ epc' = "done"
    /\ UNCHANGED <<op, eargs, dhvars>>

CallOverall ==
    /\ epc = "call"
    /\ op = "overall"
    /\ ret' = overall(eargs.X, eargs.Y, eargs.Xr, eargs.Ypred, eargs.Xpred)
    /\ epc' = "done"
    /\ UNCHANGED <<op, eargs, dhvars>>

NextErr ==
    \/ CallAnae
    \/ CallOverall

Tensors(n) == [1..n -> {FromInt(v) : v \in EVals}]

InitAnae ==
    /\ op = "anae"
    /\ \E n \in 0..MaxLen : \E r \in Tensors(n), w \in Tensors(n) :
           eargs = [ref |-> r, new |-> w]

InitOverall ==
    /\ op = "overall"
    /\ \E n \in 0..MaxOv, m \in 0..MaxOv :
         \E x \in Tensors(n), xr \in Tensors(n), xp \in Tensors(n),
            y \in Tensors(m), yp \in Tensors(m) :
           eargs = [X |-> x, Y |-> y, Xr |-> xr, Ypred |-> yp, Xpred |-> xp]

InitErr ==
    /\ InitAnae \/ InitOverall
    /\ ret = <<>>
    /\ epc = "call"
    /\ args = <<>>
    /\ normalize_Xdata = FALSE
    /\ Fresh
    /\ pc = "idle"

SpecErr == InitErr /\ [][NextErr]_vars

(* ============================== claims ================================== *)
Terminal == pc \in {"done", "raised"}

Derived == {"Xscale", "tshift", "dts", "tscale"}

\* the spacings of a vector of integers, the number of times one occurs and
\* the place where it occurs first
Diffs(t) == [i \in 1..(Len(t) - 1) |-> t[i + 1] - t[i]]

Occ(t, d) == Cardinality({i \in 1..(Len(t) - 1) : Diffs(t)[i] = d})

FirstAt(t, d) ==
    CHOOSE i \in 1..(Len(t) - 1) :
        /\ Diffs(t)[i] = d
        /\ \A k \in 1..(i - 1) : Diffs(t)[k] # d

RECURSIVE SumCounts(_)
SumCounts(d) == IF d = <<>> THEN 0 ELSE d[1][2] + SumCounts(Tail(d))

(* C1: whenever construction completes, the stored training time vector is  *)
(* exactly 0, 1, ..., n-1, n the number of training samples.                *)
C1_TtrIsIndexSequence ==
    pc = "done" =>
        /\ Len(ttr) = Len(args.Xtr)
        /\ ttr[1] = FromInt(0)
        /\ \A i \in 1..Len(ttr) : ttr[i][2] = 1
        /\ \A i \in 1..(Len(ttr) - 1) : ttr[i + 1][1] - ttr[i][1] = 1

\* a completed construction from training times with a nonzero offset, a
\* spacing other than 1 and unequal spacings
C1_Witness ==
    /\ pc = "done"
    /\ Len(args.ttr) >= 3
    /\ args.ttr[1] # 0
    /\ tscale # FromInt(1)
    /\ \E i \in 1..(Len(args.ttr) - 1) : FromInt(Diffs(args.ttr)[i]) # tscale

(* C2: a split whose state matrix and time vector differ in length makes    *)
(* construction raise the AssertionError of the first such split (order     *)
(* training, validation, test); the three checks run before any derived     *)
(* scalar exists and before any X or t data is scaled or shifted.           *)
C2_FirstMismatch ==
    IF Len(args.Xtr) # Len(args.ttr) THEN AssertionErrorTr
    ELSE IF Len(args.Xva) # Len(args.tva) THEN AssertionErrorVa
    ELSE IF Len(args.Xte) # Len(args.tte) THEN AssertionErrorTe
    ELSE ""

C2_Untouched ==
    /\ attrs \cap Derived = {}
    /\ Xtr = _tensorize2(args.Xtr) /\ ttr = _tensorize1(args.ttr)
    /\ Xva = _tensorize2(args.Xva) /\ tva = _tensorize1(args.tva)
    /\ Xte = _tensorize2(args.Xte) /\ tte = _tensorize1(args.tte)

C2_SizeChecksFirst ==
    /\ pc \in {"check_tr", "check_va", "check_te"} => C2_Untouched
    /\ (C2_FirstMismatch # "" /\ pc \notin {"start", "check_tr", "check_va", "check_te"})
           => /\ pc = "raised"
              /\ err = C2_FirstMismatch
              /\ C2_Untouched
    /\ attrs \cap Derived # {} => C2_FirstMismatch = ""

\* the test split's check fails after the other two passed on non-empty data
C2_Witness ==
    /\ pc = "raised"
    /\ err = AssertionErrorTe
    /\ Len(args.ttr) >= 2
    /\ Len(args.tva) >= 1

(* C3: for a training time vector of length >= 1 whose sizes match, rounded *)
(* spacings other than 1 give the ValueError naming 'ttr', and that         *)
(* ValueError is the only failure of the time-conditioning steps.           *)
C3_OnlyTtrValueError ==
    /\ (Terminal /\ "tscale" \in attrs
          /\ \E i \in 1..(Len(ttr) - 1) : FSub(ttr[i + 1], ttr[i]) # FromInt(1))
           => (pc = "raised" /\ err = ValueErrorTtr)
    /\ (pc = "raised" /\ "Xscale" \in attrs /\ Len(args.ttr) >= 1)
           => err = ValueErrorTtr

(* C4: anae(ref, new) is 100 times the mean of |ref-new|/|ref| over exactly *)
(* the positions where ref is not 0, whatever new holds where ref is 0.     *)
C4_NonZero(ref) == {i \in 1..Len(ref) : ref[i] # FromInt(0)}

RECURSIVE C4_SumOver(_, _, _)
C4_SumOver(ref, new, I) ==
    IF I = {} THEN FromInt(0)
    ELSE LET i == CHOOSE i \in I : TRUE
         IN  FAdd(FDiv(FAbs(FSub(ref[i], new[i])), FAbs(ref[i])),
                  C4_SumOver(ref, new, I \ {i}))

C4_IgnoresZeroRef ==
    (epc = "done" /\ op = "anae" /\ C4_NonZero(eargs.ref) # {}) =>
        ret = FMul(FromInt(100),
                   FDiv(C4_SumOver(eargs.ref, eargs.new, C4_NonZero(eargs.ref)),
                        FromInt(Cardinality(C4_NonZero(eargs.ref)))))

(* C5: anae of a tensor with a nonzero entry against itself is exactly 0.   *)
C5_SelfErrorZero ==
    (epc = "done" /\ op = "anae" /\ eargs.ref = eargs.new
        /\ \E i \in 1..Len(eargs.ref) : eargs.ref[i] # FromInt(0))
        => ret = FromInt(0)

(* C6: with normalize_Xdata, after construction the largest absolute value  *)
(* of Xtr is 1, Xscale is the largest absolute value of the original Xtr,   *)
(* and Xva, Xte are the originals divided by that Xscale.                   *)
C6_IntMaxAbs(M) ==
    CHOOSE m \in {Abs(M[i][j]) : i \in 1..Len(M), j \in 1..NCols} :
        \A i \in 1..Len(M), j \in 1..NCols : Abs(M[i][j]) <= m

C6_DividedBy(S, M, scale) ==
    /\ Len(S) = Len(M)
    /\ \A i \in 1..Len(M) : \A j \in 1..Len(M[i]) :
           FMul(S[i][j], scale) = FromInt(M[i][j])

C6_NormalizedMaxIsOne ==
    (pc = "done" /\ normalize_Xdata) =>
        /\ MaxAbs(Xtr) = FromInt(1)
        /\ Xscale = FromInt(C6_IntMaxAbs(args.Xtr))
        /\ C6_DividedBy(Xva, args.Xva, Xscale)
        /\ C6_DividedBy(Xte, args.Xte, Xscale)

C8_Mode(t) ==
    CHOOSE d \in {Diffs(t)[i] : i \in 1..(Len(t) - 1)} :
        \A i \in 1..(Len(t) - 1) :
            \/ Occ(t, Diffs(t)[i]) < Occ(t, d)
            \/ /\ Occ(t, Diffs(t)[i]) = Occ(t, d)
               /\ FirstAt(t, d) <= FirstAt(t, Diffs(t)[i])

\* q is a / d rounded to the nearest integer, ties to the even one
C8_IsRounded(q, a, d) ==
    \/ 2 * Abs(a - q * d) < Abs(d)
    \/ 2 * Abs(a - q * d) = Abs(d) /\ q % 2 = 0

C8_Regular(t) ==
    /\ C8_Mode(t) # 0
    /\ \A i \in 1..Len(t) : C8_IsRounded(i - 1, t[i] - t[1], C8_Mode(t))

C8_TrainOutcome ==
    IF Len(args.Xtr) = 0 THEN RuntimeErrorMax
    ELSE IF Len(args.ttr) = 1 THEN ValueErrorMax
    ELSE IF C8_Regular(args.ttr) THEN "" ELSE ValueErrorTtr

C8_Stored(s, orig) ==
    /\ Len(s) = Len(orig)
    /\ \A i \in 1..Len(orig) :
           FAdd(FMul(s[i], tscale), tshift) = FromInt(orig[i])

C8_ValTestUnconstrained ==
    /\ (Terminal /\ C2_FirstMismatch = "") =>
           /\ err = C8_TrainOutcome
           /\ pc = "done" <=> C8_TrainOutcome = ""
    /\ pc = "done" =>
           /\ IsFinite(tscale) /\ tscale # FromInt(0)
           /\ C8_Stored(tva, args.tva)
           /\ C8_Stored(tte, args.tte)

\* construction succeeded with validation indices that are descending and
\* not integers after scaling, and with test indices
C8_Witness ==
    /\ pc = "done"
    /\ Len(tva) >= 2
    /\ FLess(tva[2], tva[1])
    /\ tva[1][2] > 1
    /\ Len(tte) >= 2

(* C9: ttr = [100, 203, 298, 400, 500] is accepted, stored as 0..4, and     *)
(* tshift + tscale * ttr gives back [100, 200, 300, 400, 500].              *)
C9_DocExampleRegularised ==
    (Terminal /\ args.ttr = DocExample /\ C2_FirstMismatch = "") =>
        /\ pc = "done"
        /\ ttr = [i \in 1..5 |-> FromInt(i - 1)]
        /\ [i \in 1..5 |-> FAdd(tshift, FMul(tscale, ttr[i]))]
               = _tensorize1(DocRegular)

(* C10: overall returns exactly the keys recon, lin, pred, with             *)
(* recon = anae(ref=X, new=Xr), lin = anae(ref=Y, new=Ypred) and            *)
(* pred = anae(ref=X, new=Xpred).                                           *)
C10_OverallEntries ==
    (epc = "done" /\ op = "overall") =>
        /\ DOMAIN ret = {"recon", "lin", "pred"}
        /\ ret.recon = anae(eargs.X, eargs.Xr)
        /\ ret.lin = anae(eargs.Y, eargs.Ypred)
        /\ ret.pred = anae(eargs.X, eargs.Xpred)

\* three different finite errors, the linearity error not symmetric
C10_Witness ==
    /\ epc = "done"
    /\ op = "overall"
    /\ IsFinite(ret.recon) /\ IsFinite(ret.lin) /\ IsFinite(ret.pred)
    /\ ret.recon # ret.lin /\ ret.lin # ret.pred /\ ret.recon # ret.pred
    /\ ret.lin # anae(eargs.Ypred, eargs.Y)

====
